---- MODULE Spec2Model ----
(***************************************************************************)
(* A model of the ignore-aware file lister (src/src/utils/list_files.py),  *)
(* of its caller get_files (src/src/cli.py) and of the path forest         *)
(* (src/src/utils/path_trees.py).                                          *)
(*                                                                         *)
(* An absolute path is the sequence of its components from the filesystem  *)
(* root (<<>> is "/").  A path string is a record [abs, parts]: whether it *)
(* starts with the separator, and its components ("." and ".." included).  *)
(***************************************************************************)
EXTENDS Naturals, Sequences, FiniteSets, TLC

VARIABLES
    ignoreText,   \* the filesystem: per directory, its .gitignore (present?, rules)
    scanReversed, \* the filesystem: whether os.scandir yields Listing backwards
    cwd,          \* Path.cwd().resolve()
    dirpath,      \* list_files' dirpath, resolved
    repo,         \* list_files' repo flag
    included,     \* list_files' included_dirs (path strings)
    pc,           \* where the call is
    stack,        \* pending recursion() calls, innermost first: [dir, fn]
    result,       \* list_files' result list (absolute paths)
    returned,     \* list_files' return value (path strings relative to dirpath)
    scanLog,      \* every get_folder_items(dir) call, in order
    ignoreReads,  \* directories whose .gitignore was opened and parsed
    leafAbs,      \* list_files' local leaf_abs
    expandedAbs,  \* list_files' local expanded_abs
    repoRoot,     \* list_files' local repo_root (NoRoot for None)
    caller,       \* "list_files" called directly, or through "get_files"
    includedPaths,\* get_files' included_paths (path strings)
    explicitDirs, \* get_files' explict_included_dirs
    fileFilters,  \* get_files' file_filters
    files,        \* get_files' return value
    fpc,          \* where the paths_to_forest call is
    pathsIn,      \* paths_to_forest's paths, as far as the loop has got
    heap,         \* the Node objects, in creation order: [parent, key, name, terminal]
    forestOut     \* paths_to_forest's return value: the root nodes, in order

walkVars == <<ignoreText, scanReversed, cwd, dirpath, repo, included, pc, stack, result,
              returned, scanLog, ignoreReads, leafAbs, expandedAbs, repoRoot>>

gfVars == <<caller, includedPaths, explicitDirs, fileFilters, files>>

forestVars == <<fpc, pathsIn, heap, forestOut>>

vars == <<walkVars, gfVars, forestVars>>

(***************************************************************************)
(* Bounds                                                                  *)
(***************************************************************************)
MaxIncluded == 2

MaxPaths == 3

SeqsUpTo(S, n) == UNION {[1..k -> S] : k \in 0..n}

Range(s) == {s[i] : i \in 1..Len(s)}

Last(s) == s[Len(s)]

Front(s) == SubSeq(s, 1, Len(s) - 1)

(***************************************************************************)
(* Names and their characters                                              *)
(***************************************************************************)
Chars(name) ==
    CASE name = "r" -> <<"r">>
      [] name = "o" -> <<"o">>
      [] name = ".git" -> <<".", "g", "i", "t">>
      [] name = ".gitignore" -> <<".", "g", "i", "t", "i", "g", "n", "o", "r", "e">>
      [] name = "app.log" -> <<"a", "p", "p", ".", "l", "o", "g">>
      [] name = "debug.log" -> <<"d", "e", "b", "u", "g", ".", "l", "o", "g">>
      [] name = "logs" -> <<"l", "o", "g", "s">>
      [] name = "x" -> <<"x">>
      [] name = "x2" -> <<"x", "2">>
      [] name = "y" -> <<"y">>
      [] name = "y2" -> <<"y", "2">>
      [] name = "f" -> <<"f">>
      [] name = "a" -> <<"a">>
      [] name = "HEAD" -> <<"H", "E", "A", "D">>
      [] name = "lnk" -> <<"l", "n", "k">>
      [] name = "flnk" -> <<"f", "l", "n", "k">>
      [] name = "dead" -> <<"d", "e", "a", "d">>
      [] name = "up" -> <<"u", "p">>
      [] name = "pipe" -> <<"p", "i", "p", "e">>
      [] name = "none" -> <<"n", "o", "n", "e">>
      [] name = "." -> <<".">>
      [] name = ".." -> <<".", ".">>

(***************************************************************************)
(* The filesystem.  The directory skeleton is fixed; what varies is each   *)
(* directory's .gitignore.                                                 *)
(***************************************************************************)
E(n, k) == [name |-> n, kind |-> k]

IgnoreDirs == {<<"r">>, <<"r", "logs">>, <<"r", "x">>}

\* each directory's entries, in one of the orders os.scandir may yield them
Listing ==
    (<<>> :> <<E("r", "dir"), E("o", "dir")>>)
    @@ (<<"r">> :> <<E(".git", "dir"), E(".gitignore", "file"), E("app.log", "file"),
                     E("logs", "dir"), E("x", "dir"), E("x2", "dir")>>)
    @@ (<<"r", ".git">> :> <<E("HEAD", "file")>>)
    @@ (<<"r", "logs">> :> <<E(".gitignore", "file"), E("debug.log", "file"),
                             E("app.log", "file")>>)
    @@ (<<"r", "x">> :> <<E(".gitignore", "file"), E("f", "file"), E("y", "dir"),
                          E("y2", "dir"), E("lnk", "link"), E("dead", "link"),
                          E("pipe", "fifo")>>)
    @@ (<<"r", "x", "y">> :> <<E("f", "file"), E("debug.log", "file"),
                               E("flnk", "link"), E("up", "link")>>)
    @@ (<<"r", "x", "y2">> :> <<E(".git", "dir"), E("f", "file"),
                                E("app.log", "link")>>)
    @@ (<<"r", "x", "y2", ".git">> :> <<E("HEAD", "file")>>)
    @@ (<<"r", "x2">> :> <<E("a", "file"), E("f", "file")>>)
    @@ (<<"o">> :> <<E("f", "file"), E("app.log", "file")>>)

LinkTarget ==
    (<<"r", "x", "lnk">> :> <<"r", "logs">>)
    @@ (<<"r", "x", "dead">> :> <<"r", "none">>)
    @@ (<<"r", "x", "y", "flnk">> :> <<"r", "x", "f">>)
    @@ (<<"r", "x", "y", "up">> :> <<"r", "x">>)
    @@ (<<"r", "x", "y2", "app.log">> :> <<"r", "app.log">>)

Dirs == DOMAIN Listing

Reverse(s) == [i \in 1..Len(s) |-> s[Len(s) + 1 - i]]

\* the entries of directory d that exist in this filesystem, in the order
\* os.scandir yields them
Entries(d) ==
    IF d \notin Dirs THEN <<>>
    ELSE LET present(e) == \/ e.name # ".gitignore"
                           \/ (d \in IgnoreDirs /\ ignoreText[d].present)
             listed == IF scanReversed THEN Reverse(Listing[d]) ELSE Listing[d]
         IN  SelectSeq(listed, present)

\* the kind of the entry at an absolute path, not following a final symlink
KindAt(p) ==
    IF p = <<>> THEN "dir"
    ELSE LET es == Entries(Front(p))
             hit == {i \in 1..Len(es) : es[i].name = Last(p)}
         IN  IF hit = {} THEN "none" ELSE es[CHOOSE i \in hit : TRUE].kind

\* the kind of what a path denotes, following a final symlink
KindFollow(p) ==
    IF KindAt(p) = "link" THEN KindAt(LinkTarget[p]) ELSE KindAt(p)

(***************************************************************************)
(* Path strings                                                            *)
(***************************************************************************)
Rel(parts) == [abs |-> FALSE, parts |-> parts]

Abs(parts) == [abs |-> TRUE, parts |-> parts]

RECURSIVE NormParts(_, _, _)
NormParts(parts, isAbs, acc) ==
    IF parts = <<>> THEN acc
    ELSE LET c == Head(parts)
             acc2 == IF c = "." THEN acc
                     ELSE IF c = ".."
                          THEN IF acc # <<>> /\ Last(acc) # ".." THEN Front(acc)
                               ELSE IF isAbs THEN acc
                               ELSE Append(acc, "..")
                     ELSE Append(acc, c)
         IN  NormParts(Tail(parts), isAbs, acc2)

\* os.path.normpath: an empty result is "."
Normpath(s) ==
    LET n == NormParts(s.parts, s.abs, <<>>)
    IN  IF n = <<>> /\ ~s.abs THEN Rel(<<".">>) ELSE [abs |-> s.abs, parts |-> n]

\* os.path.join(a, s): an absolute second operand replaces the first
JoinAbs(a, s) == IF s.abs THEN s.parts ELSE a \o s.parts

RECURSIVE ResolveFrom(_, _)
ResolveFrom(acc, parts) ==
    IF parts = <<>> THEN acc
    ELSE LET c == Head(parts)
             nxt == IF c = "." THEN acc
                    ELSE IF c = ".." THEN (IF acc = <<>> THEN acc ELSE Front(acc))
                    ELSE LET q == Append(acc, c)
                         IN  IF KindAt(q) = "link" THEN LinkTarget[q] ELSE q
         IN  ResolveFrom(nxt, Tail(parts))

\* Path(...).resolve() of an absolute component sequence
Resolve(parts) == ResolveFrom(<<>>, parts)

IsPrefix(p, q) == Len(p) <= Len(q) /\ SubSeq(q, 1, Len(p)) = p

\* is_within(child, parent): child.relative_to(parent) does not raise
is_within(child, parent) == IsPrefix(parent, child)

RECURSIVE CommonLen(_, _)
CommonLen(p, q) ==
    IF p = <<>> \/ q = <<>> \/ Head(p) # Head(q) THEN 0
    ELSE 1 + CommonLen(Tail(p), Tail(q))

\* os.path.relpath(f, start), then normpath and the separator replacement
Relpath(f, start) ==
    LET k == CommonLen(f, start)
        ups == [i \in 1..(Len(start) - k) |-> ".."]
        rest == SubSeq(f, k + 1, Len(f))
    IN  Normpath(Rel(ups \o rest))

RECURSIVE JoinChars(_)
JoinChars(parts) ==
    IF parts = <<>> THEN <<>>
    ELSE IF Len(parts) = 1 THEN Chars(parts[1])
    ELSE Chars(Head(parts)) \o <<"/">> \o JoinChars(Tail(parts))

\* the characters of a path string
Str(s) == (IF s.abs THEN <<"/">> ELSE <<>>) \o JoinChars(s.parts)

\* str.startswith
StartsWith(s, prefix) == IsPrefix(prefix, s)

(***************************************************************************)
(* list_files.py                                                           *)
(***************************************************************************)
\* the names of a sequence of entries
NamesOf(es) == [i \in 1..Len(es) |-> es[i].name]

\* get_folder_items without its is_symlink branch: is_file() and is_dir()
\* follow the link
get_folder_items_follow(d) ==
    LET es == Entries(d)
        isFile(e) == KindFollow(Append(d, e.name)) = "file"
        isDir(e) == KindFollow(Append(d, e.name)) = "dir"
    IN  [files |-> NamesOf(SelectSeq(es, isFile)),
         folders |-> NamesOf(SelectSeq(es, isDir)),
         fileSymlinks |-> <<>>,
         folderSymlinks |-> <<>>]

\* get_folder_items: the direct children of d, classified
get_folder_items(d) ==
    LET es == Entries(d)
        isFile(e) == e.kind = "file"
        isDir(e) == e.kind = "dir"
        isDirLink(e) == e.kind = "link" /\ KindAt(LinkTarget[Append(d, e.name)]) = "dir"
        isFileLink(e) == e.kind = "link" /\ KindAt(LinkTarget[Append(d, e.name)]) # "dir"
    IN  [files |-> NamesOf(SelectSeq(es, isFile)),
         folders |-> NamesOf(SelectSeq(es, isDir)),
         fileSymlinks |-> NamesOf(SelectSeq(es, isFileLink)),
         folderSymlinks |-> NamesOf(SelectSeq(es, isDirLink))]

\* Path(norm).parts joined back one component at a time; an absolute path's
\* first part is the root itself
PartPrefixes(n) ==
    {[abs |-> n.abs, parts |-> SubSeq(n.parts, 1, k)] :
        k \in (IF n.abs THEN 0 ELSE 1)..Len(n.parts)}

RECURSIVE ExpandLoop(_, _, _)
ExpandLoop(dirs, leaves, expanded) ==
    IF dirs = <<>> THEN [leaves |-> leaves, expanded |-> expanded]
    ELSE IF Head(dirs) = Rel(<<>>) THEN ExpandLoop(Tail(dirs), leaves, expanded)
    ELSE LET norm == Normpath(Head(dirs))
         IN  IF norm = Rel(<<".">>)
             THEN [leaves |-> {}, expanded |-> {}]
             ELSE ExpandLoop(Tail(dirs), leaves \cup {norm},
                             expanded \cup PartPrefixes(norm))

expand_with_ancestors(rel_dirs) == ExpandLoop(rel_dirs, {}, {})

\* line 94: every entry normalised first
NormIncluded == [i \in 1..Len(included) |-> Normpath(included[i])]

\* (cwd_p / p).resolve()
Anchor(s) == Resolve(JoinAbs(cwd, s))

leaf_abs == {Anchor(s) : s \in expand_with_ancestors(NormIncluded).leaves}

expanded_abs == {Anchor(s) : s \in expand_with_ancestors(NormIncluded).expanded}

NoRoot == <<"<none>">>

RECURSIVE FindRepoRoot(_)
FindRepoRoot(p) ==
    IF KindFollow(Append(p, ".git")) # "none" THEN p
    ELSE IF p = <<>> THEN NoRoot
    ELSE FindRepoRoot(Front(p))

repo_root == IF repo THEN FindRepoRoot(dirpath) ELSE NoRoot

RepoAnchored == repo /\ repoRoot # NoRoot

search_root == IF RepoAnchored THEN repoRoot ELSE dirpath

in_expanded(p) ==
    expandedAbs = {} \/ \E inc \in expandedAbs : is_within(p, inc)

in_leaf_expanded(p) ==
    expandedAbs = {} \/ \E inc \in expandedAbs : is_within(p, inc)

in_leaf(p) ==
    leafAbs = {} \/ \E inc \in leafAbs : is_within(p, inc)

should_descend_no_repo(next_dir) ==
    IF expandedAbs # {}
    THEN \E inc \in expandedAbs : is_within(inc, next_dir) \/ is_within(next_dir, inc)
    ELSE TRUE

should_descend(next_dir) ==
    LET ok_repo == IF RepoAnchored
                   THEN is_within(dirpath, next_dir) \/ is_within(next_dir, dirpath)
                   ELSE TRUE
        ok_included == IF expandedAbs # {}
                       THEN \E inc \in expandedAbs :
                                is_within(inc, next_dir) \/ is_within(next_dir, inc)
                       ELSE TRUE
    IN  ok_repo /\ ok_included

default_reject_fn(p) ==
    \/ (p # <<>> /\ Last(p) = ".git")
    \/ ~in_expanded(p)

(***************************************************************************)
(* Ignore rules.  A rule is [neg, star, lit]: an optional leading "!", and *)
(* either a literal name or "*" followed by a literal suffix.  Such a      *)
(* pattern has no separator, so it is matched against the last component   *)
(* of the path relative to the ignore file's directory.                    *)
(***************************************************************************)
Rule(neg, star, lit) == [neg |-> neg, star |-> star, lit |-> lit]

StarLog == Rule(FALSE, TRUE, <<".", "l", "o", "g">>)

NotDebugLog == Rule(TRUE, FALSE, Chars("debug.log"))

DebugLog == Rule(FALSE, FALSE, Chars("debug.log"))

IgnoreF == Rule(FALSE, FALSE, Chars("f"))

NotF == Rule(TRUE, FALSE, Chars("f"))

IgnoreY == Rule(FALSE, FALSE, Chars("y"))

IsSuffix(suf, s) ==
    Len(suf) <= Len(s) /\ SubSeq(s, Len(s) - Len(suf) + 1, Len(s)) = suf

GlobMatch(rule, name) ==
    IF rule.star THEN IsSuffix(rule.lit, Chars(name)) ELSE Chars(name) = rule.lit

\* IgnoreRule.match of a rule whose ignore file lies in directory base
RuleMatch(rule, base, p) ==
    /\ is_within(p, base)
    /\ p # base
    /\ GlobMatch(rule, Last(p))

\* the function parse_gitignore_str returns: any rule matches when no rule is
\* a negation, else the verdict of the last matching rule
ParticularRejects(rules, base, p) ==
    IF \A i \in 1..Len(rules) : ~rules[i].neg
    THEN \E i \in 1..Len(rules) : RuleMatch(rules[i], base, p)
    ELSE LET hits == {i \in 1..Len(rules) : RuleMatch(rules[i], base, p)}
         IN  IF hits = {} THEN FALSE
             ELSE LET last == CHOOSE i \in hits : \A j \in hits : j <= i
                  IN  ~rules[last].neg

DefaultFn == [dflt |-> TRUE, base |-> <<>>, rules |-> <<>>]

RulesFn(base, rules) == [dflt |-> FALSE, base |-> base, rules |-> rules]

FnRejects(fn, p) ==
    IF fn.dflt THEN default_reject_fn(p)
    ELSE ParticularRejects(fn.rules, fn.base, p)

\* particular_reject_fn of directory d (lines 171-177)
particular_reject_fn(d) ==
    IF ".gitignore" \notin Range(get_folder_items(d).files)
    THEN DefaultFn
    ELSE RulesFn(d, ignoreText[d].rules)

\* lines 175-177 run outside any try block: an exception of open(), read() or
\* parse_gitignore_str leaves recursion and list_files
IgnoreFileRaises(d) ==
    /\ ".gitignore" \in Range(get_folder_items(d).files)
    /\ ignoreText[d].fails

\* reject_fn = lambda f: last_fn(f) or particular_reject_fn(f); a composed
\* function is the list of the functions it ors together
ComposeParticularOnly(last_fn, particular) == <<particular>>

Compose(last_fn, particular) == Append(last_fn, particular)

Rejects(chain, p) == \E i \in 1..Len(chain) : FnRejects(chain[i], p)

\* line 185: the file is kept
AcceptFile(chain, abs_file) ==
    /\ ~Rejects(chain, abs_file)
    /\ (~RepoAnchored \/ is_within(abs_file, dirpath))
    /\ in_leaf(abs_file)

\* lines 191-193: the folder is entered
EnterFolder(chain, next_dir) ==
    /\ ~Rejects(chain, next_dir)
    /\ should_descend(next_dir)

\* lines 197-199
Intersects ==
    \E inc \in expandedAbs : is_within(inc, search_root) \/ is_within(search_root, inc)

Frame(d, fn) == [dir |-> d, fn |-> fn]

\* one predicate object extended in place: each folder's call also gets what
\* the folders before it added
ChildFramesShared(d, entered, reject_fn) ==
    [i \in 1..Len(entered) |->
        Frame(Resolve(Append(d, entered[i])),
              reject_fn \o [j \in 1..(i - 1) |->
                               particular_reject_fn(Resolve(Append(d, entered[j])))])]

\* lines 189-194: the recursive calls of one directory, each given this
\* directory's reject_fn
ChildFrames(d, entered, reject_fn) ==
    [i \in 1..Len(entered) |-> Frame(Resolve(Append(d, entered[i])), reject_fn)]

\* lines 90-117: the inclusion sets and the repository root
LfSetup ==
    /\ pc = "lf_setup"
    /\ leafAbs' = leaf_abs
    /\ expandedAbs' = expanded_abs
    /\ repoRoot' = repo_root
    /\ pc' = "lf_start"
    /\ UNCHANGED <<ignoreText, scanReversed, cwd, dirpath, repo, included, stack, result,
                   returned, scanLog, ignoreReads>>
    /\ UNCHANGED gfVars
    /\ UNCHANGED forestVars

BailNever == FALSE

\* lines 196-200: no inclusion overlaps the search root
BailEarly == expandedAbs # {} /\ ~Intersects

\* lines 196-202: bail early, or call recursion(search_root)
LfStart ==
    /\ pc = "lf_start"
    /\ IF BailEarly
       THEN /\ pc' = "lf_done"
            /\ stack' = <<>>
       ELSE /\ pc' = "walk"
            /\ stack' = <<Frame(search_root, <<DefaultFn>>)>>
    /\ UNCHANGED <<ignoreText, scanReversed, cwd, dirpath, repo, included, result, returned,
                   scanLog, ignoreReads, leafAbs, expandedAbs, repoRoot>>
    /\ UNCHANGED gfVars
    /\ UNCHANGED forestVars

\* one call of recursion(current_dirpath, last_fn), up to its recursive calls,
\* which are pushed in the order the loop makes them
Recursion ==
    /\ pc = "walk"
    /\ stack # <<>>
    /\ LET fr == Head(stack)
           d == fr.dir
           items == get_folder_items(d)
           particular == particular_reject_fn(d)
           reject_fn == Compose(fr.fn, particular)
           keepFile(n) == AcceptFile(reject_fn, Resolve(Append(d, n)))
           keepDir(n) == EnterFolder(reject_fn, Resolve(Append(d, n)))
           accepted == SelectSeq(items.files, keepFile)
           entered == SelectSeq(items.folders, keepDir)
       IN  /\ scanLog' = Append(scanLog, d)
           /\ ignoreReads' = IF particular.dflt THEN ignoreReads
                             ELSE ignoreReads \cup {d}
           /\ IF IgnoreFileRaises(d)
              THEN /\ pc' = "lf_raised"
                   /\ stack' = <<>>
                   /\ UNCHANGED result
              ELSE /\ result' = result \o [i \in 1..Len(accepted) |->
                                              Resolve(Append(d, accepted[i]))]
                   /\ stack' = ChildFrames(d, entered, reject_fn) \o Tail(stack)
                   /\ UNCHANGED pc
    /\ UNCHANGED <<ignoreText, scanReversed, cwd, dirpath, repo, included, returned,
                   leafAbs, expandedAbs, repoRoot>>
    /\ UNCHANGED gfVars
    /\ UNCHANGED forestVars

\* lines 204-211: the results relative to dirpath
LfReturn ==
    /\ pc = "walk"
    /\ stack = <<>>
    /\ returned' = [i \in 1..Len(result) |-> Relpath(result[i], dirpath)]
    /\ pc' = "lf_done"
    /\ UNCHANGED <<ignoreText, scanReversed, cwd, dirpath, repo, included, stack, result,
                   scanLog, ignoreReads, leafAbs, expandedAbs, repoRoot>>
    /\ UNCHANGED gfVars
    /\ UNCHANGED forestVars

(***************************************************************************)
(* The calls of list_files that are explored                               *)
(***************************************************************************)
Text(rules) == [present |-> TRUE, rules |-> rules, fails |-> FALSE]

NoIgnoreFile == [present |-> FALSE, rules |-> <<>>, fails |-> FALSE]

\* a .gitignore on which open() or parse_gitignore_str raises (lines 175-177)
FailingText == [present |-> TRUE, rules |-> <<>>, fails |-> TRUE]

RootTexts == {NoIgnoreFile, Text(<<StarLog>>), Text(<<IgnoreF>>),
              Text(<<StarLog, NotDebugLog>>), Text(<<NotDebugLog, StarLog>>)}

LogsTexts == {NoIgnoreFile, Text(<<NotDebugLog>>), Text(<<DebugLog>>), FailingText}

XTexts == {NoIgnoreFile, Text(<<IgnoreY>>), Text(<<NotF>>), Text(<<DebugLog>>),
           FailingText}

IgnoreTexts ==
    {(<<"r">> :> a) @@ (<<"r", "logs">> :> b) @@ (<<"r", "x">> :> c) :
        a \in RootTexts, b \in LogsTexts, c \in XTexts}

FewIgnoreTexts ==
    {(<<"r">> :> a) @@ (<<"r", "logs">> :> NoIgnoreFile) @@ (<<"r", "x">> :> c) :
        a \in {NoIgnoreFile, Text(<<StarLog>>)}, c \in {NoIgnoreFile, Text(<<IgnoreY>>)}}

TargetDirs == {<<"r">>, <<"r", "x">>, <<"r", "x", "y">>, <<"r", ".git">>,
               <<"r", "logs">>, <<"o">>}

WorkingDirs == {<<"r">>, <<"r", "x">>, <<"r", "logs">>}

IncludedStrings == {Rel(<<"x", "y">>), Rel(<<"y">>), Rel(<<"x">>), Rel(<<".">>),
                    Rel(<<"..", "logs">>)}

NotThroughGetFiles ==
    /\ caller = "list_files"
    /\ includedPaths = <<>>
    /\ explicitDirs = <<>>
    /\ fileFilters = <<>>
    /\ files = <<>>

NoForest ==
    /\ fpc = "idle"
    /\ pathsIn = <<>>
    /\ heap = <<>>
    /\ forestOut = <<>>

WalkStart ==
    /\ pc = "lf_setup"
    /\ leafAbs = {}
    /\ expandedAbs = {}
    /\ repoRoot = NoRoot
    /\ stack = <<>>
    /\ result = <<>>
    /\ returned = <<>>
    /\ scanLog = <<>>
    /\ ignoreReads = {}

\* every ignore-file combination, no inclusion
InitIgnore ==
    /\ ignoreText \in IgnoreTexts
    /\ scanReversed \in BOOLEAN
    /\ dirpath \in TargetDirs
    /\ cwd = dirpath
    /\ repo \in BOOLEAN
    /\ included = <<>>
    /\ WalkStart
    /\ NotThroughGetFiles
    /\ NoForest

\* every inclusion list, working directory and target directory
InitIncluded ==
    /\ ignoreText \in FewIgnoreTexts
    /\ scanReversed \in BOOLEAN
    /\ dirpath \in TargetDirs
    /\ cwd \in WorkingDirs
    /\ repo \in BOOLEAN
    /\ included \in SeqsUpTo(IncludedStrings, MaxIncluded) \ {<<>>}
    /\ WalkStart
    /\ NotThroughGetFiles
    /\ NoForest

Init == InitIgnore \/ InitIncluded

Next == LfSetup \/ LfStart \/ Recursion \/ LfReturn

Spec == Init /\ [][Next]_vars

(***************************************************************************)
(* cli.py: get_files                                                       *)
(***************************************************************************)
\* os.path.isdir / os.path.isfile of an absolute path (symlinks followed)
IsDirPath(full) == KindAt(Resolve(full)) = "dir"

IsFilePath(full) == KindAt(Resolve(full)) = "file"

\* line 42: os.path.normpath(os.path.join(os.getcwd(), included_path))
FullPath(s) == Normpath(Abs(JoinAbs(cwd, s))).parts

\* lines 48-54: the directory entry an included file adds.  The segments of
\* an absolute path start with the empty string, which os.path.join drops.
FileParentEntry(s, dirs) ==
    LET norm == Normpath(s)
        segments == IF norm.abs THEN <<"">> \o norm.parts ELSE norm.parts
    IN  IF Len(segments) > 1
        THEN <<Rel(Front(norm.parts))>>
        ELSE IF Rel(<<>>) \notin Range(dirs) THEN <<Rel(<<>>)>> ELSE <<>>

\* lines 41-55: the loop over included_paths
RECURSIVE CollectIncluded(_, _)
CollectIncluded(paths, acc) ==
    IF paths = <<>> THEN acc
    ELSE LET s == Head(paths)
             full == FullPath(s)
             a1 == IF IsDirPath(full)
                   THEN [acc EXCEPT !.dirs = Append(@, Normpath(s)),
                                    !.explicit = Append(@, Normpath(s))]
                   ELSE acc
             a2 == IF IsFilePath(full)
                   THEN [a1 EXCEPT !.dirs = @ \o FileParentEntry(s, a1.dirs),
                                   !.filters = Append(@, Normpath(s))]
                   ELSE a1
         IN  CollectIncluded(Tail(paths), a2)

Collected ==
    CollectIncluded(includedPaths, [dirs |-> <<>>, explicit |-> <<>>, filters |-> <<>>])

\* line 57: some included directory is absolute
AnyAbsolute(dirs) == \E i \in 1..Len(dirs) : dirs[i].abs

\* lines 37-60: collect the arguments, then raise UsageError or call
\* impl_list_files(os.getcwd(), effective_repo, included_dirs)
GetFilesArgs ==
    /\ pc = "gf_start"
    /\ explicitDirs' = Collected.explicit
    /\ fileFilters' = Collected.filters
    /\ IF AnyAbsolute(Collected.dirs)
       THEN /\ pc' = "gf_error"
            /\ UNCHANGED <<dirpath, included>>
       ELSE /\ pc' = "lf_setup"
            /\ dirpath' = cwd
            /\ included' = Collected.dirs
    /\ UNCHANGED <<ignoreText, scanReversed, cwd, repo, stack, result, returned, scanLog,
                   ignoreReads, leafAbs, expandedAbs, repoRoot, caller,
                   includedPaths, files>>
    /\ UNCHANGED forestVars

\* lines 31-34: a string prefix test
is_effective_child(parent_dir, child_path) ==
    StartsWith(Str(Normpath(child_path)), Str(Normpath(parent_dir)))

\* lines 62-68: the file is kept by the per-file filter
KeptByFilter(f) ==
    \/ Normpath(f) \in Range(fileFilters)
    \/ \E i \in 1..Len(explicitDirs) :
           /\ Str(explicitDirs[i]) # <<>>
           /\ is_effective_child(explicitDirs[i], f)

\* lines 62-70
GetFilesFilter ==
    /\ pc = "lf_done"
    /\ caller = "get_files"
    /\ files' = IF Len(fileFilters) > 0 THEN SelectSeq(returned, KeptByFilter)
                ELSE returned
    /\ pc' = "gf_done"
    /\ UNCHANGED <<ignoreText, scanReversed, cwd, dirpath, repo, included, stack, result,
                   returned, scanLog, ignoreReads, leafAbs, expandedAbs, repoRoot,
                   caller, includedPaths, explicitDirs, fileFilters>>
    /\ UNCHANGED forestVars

(***************************************************************************)
(* The calls of get_files that are explored                                *)
(***************************************************************************)
GfPathStrings == {Rel(<<"x">>), Rel(<<"x2", "f">>), Rel(<<"f">>), Rel(<<"y">>),
                  Rel(<<"..", "logs">>), Rel(<<"..", "o">>),
                  Abs(<<"r", "x">>), Abs(<<"r", "x", "f">>), Abs(<<"none">>)}

GfIgnoreTexts ==
    {(<<"r">> :> a) @@ (<<"r", "logs">> :> NoIgnoreFile) @@ (<<"r", "x">> :> NoIgnoreFile) :
        a \in {NoIgnoreFile, Text(<<StarLog>>)}}

InitGF ==
    /\ ignoreText \in GfIgnoreTexts
    /\ scanReversed = FALSE
    /\ cwd \in {<<"r">>, <<"r", "x">>}
    /\ dirpath = cwd
    /\ repo \in BOOLEAN
    /\ included = <<>>
    /\ caller = "get_files"
    /\ includedPaths \in SeqsUpTo(GfPathStrings, MaxIncluded)
    /\ explicitDirs = <<>>
    /\ fileFilters = <<>>
    /\ files = <<>>
    /\ pc = "gf_start"
    /\ stack = <<>>
    /\ result = <<>>
    /\ returned = <<>>
    /\ scanLog = <<>>
    /\ ignoreReads = {}
    /\ leafAbs = {}
    /\ expandedAbs = {}
    /\ repoRoot = NoRoot
    /\ NoForest

NextGF == GetFilesArgs \/ LfSetup \/ LfStart \/ Recursion \/ LfReturn \/ GetFilesFilter

SpecGF == InitGF /\ [][NextGF]_vars

\* an included path that is absolute or leaves the working tree
BadPathArgument(s) ==
    s.abs \/ ~is_within(Resolve(JoinAbs(cwd, s)), cwd)

\* C7: when some included path given to get_files is absolute or lies outside
\* the working tree, an error is reported and impl_list_files is never called.
C7_PathErrorsPrecedeTraversal ==
    (/\ caller = "get_files"
     /\ \E i \in 1..Len(includedPaths) : BadPathArgument(includedPaths[i]))
    => /\ pc \in {"gf_start", "gf_error"}
       /\ scanLog = <<>>

\* C10: when some included path names a file, every path get_files returns
\* equals an included file path or lies, component by component, inside an
\* explicitly included directory.
C10_PerFileFilter ==
    (/\ pc = "gf_done"
     /\ \E i \in 1..Len(includedPaths) : IsFilePath(FullPath(includedPaths[i])))
    => \A k \in 1..Len(files) :
           \/ \E i \in 1..Len(includedPaths) :
                  /\ IsFilePath(FullPath(includedPaths[i]))
                  /\ Normpath(includedPaths[i]) = Normpath(files[k])
           \/ \E i \in 1..Len(includedPaths) :
                  /\ IsDirPath(FullPath(includedPaths[i]))
                  /\ is_within(Resolve(cwd \o files[k].parts),
                               Resolve(JoinAbs(cwd, includedPaths[i])))

(***************************************************************************)
(* Properties of list_files                                                *)
(***************************************************************************)
\* every regular file of the filesystem, as an absolute path
RegularFiles ==
    UNION {{Append(d, n) : n \in Range(get_folder_items(d).files)} : d \in Dirs}

\* the directories with an ignore file from a down to the parent of f
ScopesBetween(a, f) ==
    {d \in IgnoreDirs : ignoreText[d].present /\ is_within(d, a)
                        /\ is_within(f, d) /\ d # f}

\* f or one of its ancestor directories below d is rejected by d's ignore file
IgnoredBy(d, f) ==
    \E k \in (Len(d) + 1)..Len(f) :
        ParticularRejects(ignoreText[d].rules, d, SubSeq(f, 1, k))

\* no ignore file from the search root down rejects f or a directory on the
\* way to it, and f is not inside a .git directory
NotIgnored(f) ==
    /\ ".git" \notin Range(f)
    /\ \A d \in ScopesBetween(search_root, f) : ~IgnoredBy(d, f)

\* C1: with "*.log" in the root's ignore file and "!debug.log" in
\* logs/.gitignore, list_files walking from the root returns logs/debug.log,
\* and no other *.log file outside logs/.
C1_NegationPrecedence ==
    (/\ pc = "lf_done"
     /\ dirpath = <<"r">>
     /\ included = <<>>
     /\ ignoreText[<<"r">>] = Text(<<StarLog>>)
     /\ ignoreText[<<"r", "logs">>] = Text(<<NotDebugLog>>))
    => /\ Rel(<<"logs", "debug.log">>) \in Range(returned)
       /\ \A f \in RegularFiles :
              (GlobMatch(StarLog, Last(f)) /\ ~is_within(f, <<"r", "logs">>))
              => f \notin Range(result)

\* C2: with a non-empty inclusion, every non-ignored regular file inside an
\* included leaf directory and inside the target subtree is returned, wherever
\* the search root lies.
C2_InclusionReachesLeaves ==
    (pc = "lf_done" /\ leafAbs # {})
    => \A f \in RegularFiles :
           (/\ \E leaf \in leafAbs : is_within(f, leaf)
            /\ is_within(f, dirpath)
            /\ NotIgnored(f))
           => f \in Range(result)

XY == Rel(<<"x", "y">>)

C4_NoControlDirFiles ==
    pc = "lf_done" => \A i \in 1..Len(result) : ".git" \notin Range(result[i])

\* the directories strictly above the target directory, from a down
StrictlyAbove(a) ==
    {d \in Dirs : is_within(d, a) /\ is_within(dirpath, d) /\ d # dirpath}

\* below directory a, f is inside no .git directory and neither f nor a
\* directory on the way to it is rejected by an ignore file at or below a
KeptBelow(a, f) ==
    /\ \A k \in (Len(a) + 1)..Len(f) : f[k] # ".git"
    /\ \A d \in ScopesBetween(a, f) : ~IgnoredBy(d, f)

\* C5: in repo mode with the target strictly below the repository root, a file
\* under the target that the ignore file of the root or of an intermediate
\* ancestor rejects is not returned; without repo mode no ignore file above
\* the target is read, and (no inclusion given) what is returned is decided by
\* the ignore files at or below the target alone.
C5_RepoBoundary ==
    /\ (pc = "lf_done" /\ RepoAnchored /\ repoRoot # dirpath)
       => \A d \in StrictlyAbove(repoRoot) \cap IgnoreDirs :
              \A f \in RegularFiles :
                  (/\ ignoreText[d].present
                   /\ is_within(f, dirpath)
                   /\ ParticularRejects(ignoreText[d].rules, d, f))
                  => f \notin Range(result)
    /\ ~repo => \A d \in ignoreReads : is_within(d, dirpath)
    /\ (pc = "lf_done" /\ ~repo /\ included = <<>>)
       => \A f \in RegularFiles :
              is_within(f, dirpath) => (f \in Range(result) <=> KeptBelow(dirpath, f))

C5_Witness ==
    /\ pc = "lf_done"
    /\ RepoAnchored
    /\ dirpath = <<"r", "x", "y">>
    /\ ignoreText[<<"r">>] = Text(<<StarLog>>)
    /\ <<"r", "x", "y", "f">> \in Range(result)
    /\ <<"r", "x", "y", "debug.log">> \notin Range(result)

\* C6: in repo mode with a repository root found, the walk starts at that
\* root, only ancestors and descendants of the target directory are scanned,
\* and every returned path stays inside the target directory.
C6_RepoConfinement ==
    RepoAnchored
    => /\ scanLog # <<>> => scanLog[1] = repoRoot
       /\ \A i \in 1..Len(scanLog) :
              is_within(scanLog[i], dirpath) \/ is_within(dirpath, scanLog[i])
       /\ \A i \in 1..Len(result) : is_within(result[i], dirpath)
       /\ \A i \in 1..Len(returned) :
              /\ ~returned[i].abs
              /\ ".." \notin Range(returned[i].parts)
              /\ dirpath \o returned[i].parts = result[i]

C6_Witness ==
    /\ pc = "lf_done"
    /\ RepoAnchored
    /\ repoRoot # dirpath
    /\ Len(scanLog) > 1
    /\ returned # <<>>

\* no member of the expanded inclusion set is at, above or below the search root
NoOverlap ==
    /\ expandedAbs # {}
    /\ \A inc \in expandedAbs :
           ~is_within(inc, search_root) /\ ~is_within(search_root, inc)

\* C8: when the expanded inclusion set is non-empty and nothing in it is an
\* ancestor of, equal to or a descendant of the search root, list_files
\* returns the empty list without entering the recursion: no directory is
\* scanned and no ignore file is read.
C8_EarlyExit ==
    NoOverlap
    => /\ pc \in {"lf_start", "lf_done"}
       /\ stack = <<>>
       /\ scanLog = <<>>
       /\ ignoreReads = {}
       /\ result = <<>>
       /\ returned = <<>>

C8_Witness == pc = "lf_done" /\ NoOverlap

\* some directory on the way to p, or p itself, is a symlink
ThroughLink(p) == \E k \in 1..Len(p) : KindAt(SubSeq(p, 1, k)) = "link"

\* no element occurs twice
NoRepeat(s) == \A i, j \in 1..Len(s) : s[i] = s[j] => i = j

\* C12: no entry classified as a symlink (to a file, to a directory, broken)
\* is descended into or returned, whatever the ignore rules say of it: every
\* scanned directory is the search root or a real subdirectory of a directory
\* scanned before it, every result is a regular file of a scanned directory,
\* and no directory is scanned or queued twice, so that the walk makes at most
\* one step per real directory even where symlinks form a cycle
C12_SymlinkExclusion ==
    /\ \A i \in 1..Len(scanLog) :
           /\ KindAt(scanLog[i]) = "dir"
           /\ ~ThroughLink(scanLog[i])
           /\ i > 1 => \E j \in 1..(i - 1) : scanLog[j] = Front(scanLog[i])
    /\ NoRepeat(scanLog)
    /\ Len(scanLog) <= Cardinality(Dirs)
    /\ \A i \in 1..Len(stack) :
           /\ KindAt(stack[i].dir) = "dir"
           /\ ~ThroughLink(stack[i].dir)
           /\ stack[i].dir \notin Range(scanLog)
           /\ \A j \in 1..Len(stack) : stack[j].dir = stack[i].dir => j = i
    /\ \A i \in 1..Len(result) :
           /\ KindAt(result[i]) = "file"
           /\ ~ThroughLink(result[i])
           /\ Front(result[i]) \in Range(scanLog)
    /\ NoRepeat(result)
    /\ \A i \in 1..Len(returned) :
           LET named == Normpath(Abs(JoinAbs(dirpath, returned[i]))).parts
           IN  KindAt(named) = "file" /\ ~ThroughLink(named)

\* a finished walk that scanned the directories holding the symlinks (one to
\* a directory, a broken one, one to a file, one back to an ancestor, one
\* whose name an ignore rule matches) and returned files
C12_Witness ==
    /\ pc = "lf_done"
    /\ {<<"r", "x">>, <<"r", "x", "y">>, <<"r", "x", "y2">>} \subseteq Range(scanLog)
    /\ get_folder_items(<<"r", "x">>).folderSymlinks = <<"lnk">>
    /\ get_folder_items(<<"r", "x">>).fileSymlinks = <<"dead">>
    /\ get_folder_items(<<"r", "x", "y">>).folderSymlinks = <<"up">>
    /\ get_folder_items(<<"r", "x", "y2">>).fileSymlinks = <<"app.log">>
    /\ ignoreText[<<"r">>] = Text(<<StarLog>>)
    /\ repoRoot = <<"r">>
    /\ returned # <<>>

\* the predicate recursion(d, last_fn) is called with: the baseline rule, then
\* the ignore file (if any) of each directory from the search root down to
\* the parent of d
AncestorChain(d) ==
    <<DefaultFn>> \o [k \in 1..(Len(d) - Len(search_root)) |->
                        particular_reject_fn(SubSeq(d, 1, Len(search_root) + k - 1))]

\* q is rejected by the baseline rule or by the ignore file of a directory
\* from the search root down to the parent of q
RejectedAt(q) ==
    \/ default_reject_fn(q)
    \/ \E a \in ScopesBetween(search_root, q) :
          ParticularRejects(ignoreText[a].rules, a, q)

\* every directory from the search root (excluded) down to d (included) is a
\* real directory that passes the rules above it and the descent test
Reached(d) ==
    /\ is_within(d, search_root)
    /\ \A k \in (Len(search_root) + 1)..Len(d) :
           LET q == SubSeq(d, 1, k)
           IN  KindAt(q) = "dir" /\ ~RejectedAt(q) /\ should_descend(q)

Verdict(f) ==
    /\ Reached(Front(f))
    /\ ~RejectedAt(f)
    /\ (~RepoAnchored \/ is_within(f, dirpath))
    /\ in_leaf(f)

\* C13: the predicate used for a directory is made of the baseline rule and
\* of the ignore files of the directories from the search root down to it,
\* and of nothing else; so whether a directory is scanned and whether a file
\* is returned depends on the ignore files of its own ancestors only, never on
\* a sibling subtree's, in whichever order the entries are visited
C13_SiblingIsolation ==
    /\ \A i \in 1..Len(stack) : stack[i].fn = AncestorChain(stack[i].dir)
    /\ (pc = "lf_done" /\ ~BailEarly) =>
           /\ Range(scanLog) = {d \in Dirs : Reached(d)}
           /\ Range(result) = {f \in RegularFiles : Verdict(f)}

\* the subtree x, whose ignore file rejects debug.log, is visited before its
\* sibling logs, which has an ignore file of its own: logs/debug.log is
\* returned, x/y/debug.log is not
C13_Witness ==
    /\ pc = "lf_done"
    /\ scanReversed
    /\ dirpath = <<"r">>
    /\ ignoreText[<<"r", "x">>] = Text(<<DebugLog>>)
    /\ ignoreText[<<"r", "logs">>] = Text(<<NotDebugLog>>)
    /\ \E i, j \in 1..Len(scanLog) :
           i < j /\ scanLog[i] = <<"r", "x">> /\ scanLog[j] = <<"r", "logs">>
    /\ <<"r", "logs", "debug.log">> \in Range(result)
    /\ <<"r", "x", "y", "f">> \in Range(result)
    /\ <<"r", "x", "y", "debug.log">> \notin Range(result)

\* C11: a .gitignore whose reading or parsing fails is not fatal: no walk that
\* meets one in a directory it scans is aborted by it
C11_MalformedIgnoreNonFatal ==
    \A i \in 1..Len(scanLog) :
        IgnoreFileRaises(scanLog[i]) => pc # "lf_raised"

(***************************************************************************)
(* path_trees.py.  A path is the sequence of its characters.               *)
(***************************************************************************)
Delimiter == <<"/">>

RootName == <<"<", "r", "o", "o", "t", ">">>

\* str.split(delimiter) for the one-character delimiter: every piece, the
\* empty ones included
RECURSIVE SplitFrom(_, _, _)
SplitFrom(s, piece, acc) ==
    IF s = <<>> THEN Append(acc, piece)
    ELSE IF <<Head(s)>> = Delimiter THEN SplitFrom(Tail(s), <<>>, Append(acc, piece))
    ELSE SplitFrom(Tail(s), Append(piece, Head(s)), acc)

\* [s for s in p.split(delimiter) if s]
Segs(s) ==
    LET nonEmpty(x) == x # <<>>
    IN  SelectSeq(SplitFrom(s, <<>>, <<>>), nonEmpty)

\* default_split: (root_label, segments_without_root)
default_split(p) ==
    IF p = <<>> THEN [root |-> <<>>, segs |-> <<>>]
    ELSE IF StartsWith(p, Delimiter)
         THEN [root |-> Delimiter, segs |-> Segs(Tail(p))]
         ELSE LET segs == Segs(p)
              IN  IF segs = <<>> THEN [root |-> <<>>, segs |-> <<>>]
                  ELSE [root |-> Head(segs), segs |-> Tail(segs)]

Node(parent, key, name) ==
    [parent |-> parent, key |-> key, name |-> name, terminal |-> FALSE]

ChildrenGetNone(h, id, head) == {}

\* self.children.get(head): the child of node id under that name, if any
ChildrenGet(h, id, head) ==
    {i \in 1..Len(h) : h[i].parent = id /\ h[i].key = head}

\* Node.add
RECURSIVE NodeAdd(_, _, _)
NodeAdd(h, id, segments) ==
    IF segments = <<>> THEN [h EXCEPT ![id].terminal = TRUE]
    ELSE LET head == Head(segments)
             child == ChildrenGet(h, id, head)
         IN  IF child = {}
             THEN NodeAdd(Append(h, Node(id, head, head)), Len(h) + 1, Tail(segments))
             ELSE NodeAdd(h, CHOOSE i \in child : TRUE, Tail(segments))

\* roots[root_label], the roots being the nodes without a parent
RootsGet(h, label) == {i \in 1..Len(h) : h[i].parent = 0 /\ h[i].key = label}

\* lines 73-76: one round of the loop
AddOnePath(h, p) ==
    LET sp == default_split(p)
        hit == RootsGet(h, sp.root)
        h2 == IF hit = {}
              THEN Append(h, Node(0, sp.root, IF sp.root = <<>> THEN RootName ELSE sp.root))
              ELSE h
        id == IF hit = {} THEN Len(h) + 1 ELSE CHOOSE i \in hit : TRUE
    IN  NodeAdd(h2, id, sp.segs)

\* the code point of a character
Ord(c) ==
    CASE c = "/" -> 47
      [] c = "<" -> 60
      [] c = ">" -> 62
      [] c = "a" -> 97
      [] c = "b" -> 98
      [] c = "o" -> 111
      [] c = "r" -> 114
      [] c = "t" -> 116

\* s < t for strings
RECURSIVE StrLess(_, _)
StrLess(s, t) ==
    IF t = <<>> THEN FALSE
    ELSE IF s = <<>> THEN TRUE
    ELSE IF Head(s) = Head(t) THEN StrLess(Tail(s), Tail(t))
    ELSE Ord(Head(s)) < Ord(Head(t))

RECURSIVE InsertByKey(_, _, _)
InsertByKey(h, sorted, id) ==
    IF sorted = <<>> THEN <<id>>
    ELSE IF StrLess(h[id].key, h[Head(sorted)].key) THEN <<id>> \o sorted
    ELSE <<Head(sorted)>> \o InsertByKey(h, Tail(sorted), id)

RECURSIVE SortIds(_, _, _)
SortIds(h, ids, sorted) ==
    IF ids = <<>> THEN sorted
    ELSE SortIds(h, Tail(ids), InsertByKey(h, sorted, Head(ids)))

\* line 79: [roots[k] for k in sorted(roots.keys())]
SortedRoots(h) ==
    LET isRoot(i) == h[i].parent = 0
    IN  SortIds(h, SelectSeq([i \in 1..Len(h) |-> i], isRoot), <<>>)

InputPaths ==
    {<<>>, <<"a">>, <<"b">>, <<"a", "/", "b">>, <<"a", "/", "a">>, <<"b", "/", "a">>,
     <<"/", "a">>, <<"a", "/">>, <<"a", "/", "/", "b">>, <<"/">>,
     <<"a", "/", "b", "/", "a">>}

\* lines 72-76, for the next path of the list
AddPath ==
    /\ fpc = "build"
    /\ Len(pathsIn) < MaxPaths
    /\ \E p \in InputPaths :
           /\ pathsIn' = Append(pathsIn, p)
           /\ heap' = AddOnePath(heap, p)
    /\ UNCHANGED <<fpc, forestOut>>
    /\ UNCHANGED <<walkVars, gfVars>>

\* line 79, the list being exhausted
ReturnForest ==
    /\ fpc = "build"
    /\ forestOut' = SortedRoots(heap)
    /\ fpc' = "done"
    /\ UNCHANGED <<pathsIn, heap>>
    /\ UNCHANGED <<walkVars, gfVars>>

InitForest ==
    /\ fpc = "build"
    /\ pathsIn = <<>>
    /\ heap = <<>>
    /\ forestOut = <<>>
    /\ ignoreText \in {[d \in IgnoreDirs |-> NoIgnoreFile]}
    /\ scanReversed = FALSE
    /\ cwd = <<"r">>
    /\ dirpath = <<"r">>
    /\ repo = FALSE
    /\ included = <<>>
    /\ pc = "idle"
    /\ stack = <<>>
    /\ result = <<>>
    /\ returned = <<>>
    /\ scanLog = <<>>
    /\ ignoreReads = {}
    /\ leafAbs = {}
    /\ expandedAbs = {}
    /\ repoRoot = NoRoot
    /\ NotThroughGetFiles

NextForest == AddPath \/ ReturnForest

SpecForest == InitForest /\ [][NextForest]_vars

(***************************************************************************)
(* Properties of paths_to_forest                                           *)
(***************************************************************************)
\* the labels from a root down to node id
RECURSIVE NodePath(_, _)
NodePath(h, id) ==
    IF h[id].parent = 0 THEN <<h[id].key>>
    ELSE Append(NodePath(h, h[id].parent), h[id].key)

\* the tokens of a delimiter-separated path: its non-empty pieces, after the
\* delimiter itself when the path starts with it
RECURSIVE Pieces(_, _)
Pieces(s, piece) ==
    IF s = <<>> THEN (IF piece = <<>> THEN <<>> ELSE <<piece>>)
    ELSE IF Head(s) = "/"
         THEN (IF piece = <<>> THEN <<>> ELSE <<piece>>) \o Pieces(Tail(s), <<>>)
    ELSE Pieces(Tail(s), Append(piece, Head(s)))

PathTokens(p) ==
    IF p # <<>> /\ Head(p) = "/" THEN <<<<"/">>>> \o Pieces(p, <<>>) ELSE Pieces(p, <<>>)

\* the non-empty prefixes of the given paths
Prefixes(ps) ==
    UNION {{SubSeq(PathTokens(p), 1, k) : k \in 1..Len(PathTokens(p))} : p \in ps}

EmptyRoot == <<<<>>>>

\* where a path ends: at its last token, the empty path at the empty root
EndOf(p) == IF p = <<>> THEN EmptyRoot ELSE PathTokens(p)

ForestShape(expected) ==
    /\ \A i, j \in 1..Len(heap) : NodePath(heap, i) = NodePath(heap, j) => i = j
    /\ {NodePath(heap, i) : i \in 1..Len(heap)} = expected
    /\ \A i \in 1..Len(heap) :
           /\ heap[i].terminal <=> \E p \in Range(pathsIn) : EndOf(p) = NodePath(heap, i)
           /\ heap[i].name = (IF heap[i].key = <<>> THEN RootName ELSE heap[i].key)
    /\ fpc = "done"
       => /\ Range(forestOut) = {i \in 1..Len(heap) : heap[i].parent = 0}
          /\ \A i, j \in 1..Len(forestOut) :
                 i < j => StrLess(heap[forestOut[i]].key, heap[forestOut[j]].key)

\* C9 as stated: paths_to_forest yields exactly one node per distinct non-empty
\* path prefix, for every list of paths.
C9_ForestAsStated == fpc = "done" => ForestShape(Prefixes(Range(pathsIn)))

\* C9, amended: the forest is a function of the set of input paths: exactly
\* one node per distinct non-empty path prefix, and one more root, named
\* "<root>", when the empty path is among the inputs; a node is terminal iff
\* some input path ends at it; the roots are returned each once, sorted by
\* label.  A repeated path or another order of the list changes nothing.
C9_Forest ==
    ForestShape(Prefixes(Range(pathsIn))
                \cup (IF <<>> \in Range(pathsIn) THEN {EmptyRoot} ELSE {}))

C9_Witness ==
    /\ fpc = "done"
    /\ pathsIn = <<<<"a", "/", "b">>, <<"b">>, <<"a", "/", "b">>>>
    /\ Len(heap) = 3
    /\ Len(forestOut) = 2

====
